---- MODULE Spec2Model ----
(***************************************************************************)
(* The SQL guard of the Northwind NL->SQL service (src/database.py):       *)
(* is_read_only_sql, only_allowed_tables and run_sql_async, together with  *)
(* the connection it opens on the store.                                   *)
(*                                                                         *)
(* A statement (a Python str) is a sequence of tokens.  A token is either  *)
(* one punctuation or whitespace character, or a whole run of word         *)
(* characters [A-Za-z0-9_].  Adjacent word tokens form one longer word     *)
(* ("z" next to "drop" is the identifier zdrop).  The word tokens are      *)
(* chosen so that no keyword of the guard occurs inside a token other      *)
(* than itself, nor across two adjacent tokens: a keyword occurs in the    *)
(* text exactly where its token stands.                                    *)
(***************************************************************************)
EXTENDS Integers, Sequences, FiniteSets, TLC

\* ------------------------------------------------------------------ text

\* upper-case spellings of the word tokens that have one in the model
UpperOf ==
  [ select |-> "SELECT", from |-> "FROM", join |-> "JOIN", with |-> "WITH",
    as |-> "AS", drop |-> "DROP", orders |-> "ORDERS",
    order_details |-> "ORDER_DETAILS", users |-> "USERS" ]

\* the lower-case spelling of each upper-case word token
LowerOf ==
  [ u \in { UpperOf[k] : k \in DOMAIN UpperOf } |->
      CHOOSE k \in DOMAIN UpperOf : UpperOf[k] = u ]

\* str.lower() on one token
Lower(t) == IF t \in DOMAIN LowerOf THEN LowerOf[t] ELSE t

\* str.upper() on one token
Upper(t) == IF t \in DOMAIN UpperOf THEN UpperOf[t] ELSE t

\* str.lower() on a statement
LowerAll(s) == [i \in 1..Len(s) |-> Lower(s[i])]

\* characters matched by \s
Whitespace == {" ", "\n"}

\* the backtick character (the token is written out: a literal backtick
\* cannot stand in a string of this module)
Backtick == "<backtick>"

DQuote == "\""

\* punctuation characters of the model (each is one character)
Punct == {"(", ")", ",", ";", "'", "*", "-", "=", ".", Backtick, DQuote}

\* a token that is a run of word characters (\w+)
IsWord(t) == t \notin Whitespace /\ t \notin Punct

\* a token matched by the class [a-zA-Z0-9_\.]
IsIdentChar(t) == IsWord(t) \/ t = "."

\* \b holds between positions i and i+1 of s (0 <= i <= Len(s))
Boundary(s, i) ==
  LET l == i >= 1 /\ IsWord(s[i])
      r == i < Len(s) /\ IsWord(s[i + 1])
  IN  l # r

\* the whole word w stands at position i of s: \bw\b matches there
WordAt(s, w, i) ==
  /\ i \in 1..Len(s)
  /\ s[i] = w
  /\ Boundary(s, i - 1)
  /\ Boundary(s, i)

\* re.search(r"\bw\b", s)
SearchWord(s, w) == \E i \in 1..Len(s) : WordAt(s, w, i)

\* str.strip(): drop leading and trailing whitespace
RECURSIVE LStrip(_)
LStrip(s) ==
  IF s # << >> /\ Head(s) \in Whitespace THEN LStrip(Tail(s)) ELSE s

RECURSIVE RStrip(_)
RStrip(s) ==
  IF s # << >> /\ s[Len(s)] \in Whitespace
    THEN RStrip(SubSeq(s, 1, Len(s) - 1))
    ELSE s

Strip(s) == RStrip(LStrip(s))

\* re.sub of a backtick or a double quote by the empty string
RECURSIVE StripQuotes(_)
StripQuotes(s) ==
  IF s = << >> THEN << >>
  ELSE IF Head(s) \in {Backtick, DQuote} THEN StripQuotes(Tail(s))
  ELSE <<Head(s)>> \o StripQuotes(Tail(s))

\* first position >= i of s that holds no whitespace: where \s* or \s+ ends
RECURSIVE SkipSpaces(_, _)
SkipSpaces(s, i) ==
  IF i <= Len(s) /\ s[i] \in Whitespace THEN SkipSpaces(s, i + 1) ELSE i

\* first position >= i of s that holds no character of [a-zA-Z0-9_\.]
RECURSIVE SkipIdent(_, _)
SkipIdent(s, i) ==
  IF i <= Len(s) /\ IsIdentChar(s[i]) THEN SkipIdent(s, i + 1) ELSE i

\* re.findall(r"\bkw\s+([a-zA-Z0-9_\.]+)", s) from position i on: the
\* captured groups of the non-overlapping matches, left to right
RECURSIVE FindAllFrom(_, _, _)
FindAllFrom(s, kw, i) ==
  IF i > Len(s) THEN << >>
  ELSE LET j == SkipSpaces(s, i + 1)
           k == SkipIdent(s, j)
       IN  IF /\ s[i] = kw
              /\ Boundary(s, i - 1)
              /\ j > i + 1
              /\ k > j
             THEN <<SubSeq(s, j, k - 1)>> \o FindAllFrom(s, kw, k)
             ELSE FindAllFrom(s, kw, i + 1)

\* FindAll as re.search would do it: the first match only
FindAll_FirstOnly(s, kw) ==
  LET all == FindAllFrom(s, kw, 1)
  IN  IF all = << >> THEN << >> ELSE <<all[1]>>

FindAll(s, kw) == FindAllFrom(s, kw, 1)

\* LastSegment without the split: the whole dotted name
LastSegment_Whole(name) == name

\* name.split(".")[-1]: the tokens after the last dot
RECURSIVE LastSegment(_)
LastSegment(name) ==
  IF \E i \in 1..Len(name) : name[i] = "."
    THEN LastSegment(Tail(name))
    ELSE name

\* ----------------------------------------------------------------- guard

\* The two module-level collections of database.py are objects every call
\* reads when it runs; they are part of the state of the process.
VARIABLES
  ALLOWED_TABLES,      \* the set of table names a statement may read
  READ_ONLY_PATTERNS   \* the list of patterns a read-only statement starts with

globals == <<ALLOWED_TABLES, READ_ONLY_PATTERNS>>

\* their values once the module is imported
AllowedTablesAtImport == {"orders", "order_details", "products", "categories", "customers"}

\* the keywords of READ_ONLY_PATTERNS, each pattern being ^\s*kw\b
ReadOnlyPatternsAtImport == <<"select", "with", "show", "describe", "explain">>

GlobalsAtImport ==
  /\ ALLOWED_TABLES = AllowedTablesAtImport
  /\ READ_ONLY_PATTERNS = ReadOnlyPatternsAtImport

forbidden ==
  <<"insert", "update", "delete", "drop", "alter", "truncate", "create",
    "grant", "revoke">>

\* MatchPrefix as re.search would do it: the keyword as a word anywhere
MatchPrefix_Anywhere(kw, s) == SearchWord(s, kw)

\* re.match(r"^\s*kw\b", s)
MatchPrefix(kw, s) ==
  LET j == SkipSpaces(s, 1)
  IN  j <= Len(s) /\ s[j] = kw /\ Boundary(s, j)

\* Contains as a whole-word test (\bf\b) instead of a substring test
Contains_WholeWord(s, f) == SearchWord(s, f)

\* f in s (substring test), f a keyword
Contains(s, f) == \E i \in 1..Len(s) : s[i] = f

is_read_only_sql(sql) ==
  IF sql = << >> THEN FALSE
  ELSE LET s == LowerAll(Strip(sql))
       IN  IF \E p \in 1..Len(READ_ONLY_PATTERNS) : MatchPrefix(READ_ONLY_PATTERNS[p], s)
             THEN ~ \E f \in 1..Len(forbidden) : Contains(s, forbidden[f])
             ELSE FALSE

\* a word equal to one token (a run of several word tokens is a longer word)
InAllowed(short) == Len(short) = 1 /\ short[1] \in ALLOWED_TABLES

only_allowed_tables(sql) ==
  IF sql = << >> THEN FALSE
  ELSE LET s == StripQuotes(LowerAll(sql))
           suspects == FindAll(s, "from") \o FindAll(s, "join")
       IN  IF /\ SearchWord(s, "from") \/ SearchWord(s, "join")
              /\ ~ \E t \in ALLOWED_TABLES : SearchWord(s, t)
             THEN FALSE
           ELSE \A n \in 1..Len(suspects) : InAllowed(LastSegment(suspects[n]))

\* ------------------------------------------------- candidate statements
\* The statements handed to the guard.  A candidate records how the
\* statement was written (which tables it reads and in which syntax, which
\* keyword it starts with, what follows it); Render gives its text.

MaxRefs == 2

Sp == " "

Styles == {"plain", "upper", "quoted", "qualified"}

\* from T | join T | , T | from (T) | from (select * from T) | from<backtick>T<backtick>
Hows == {"from", "join", "comma", "paren", "sub", "tight"}

Names == {"orders", "order_details", "users"}

Refs == [how : Hows, name : Names]

RefSeqs ==
  { rs \in UNION { [1..n -> Refs] : n \in 0..MaxRefs } :
      rs # << >> => rs[1].how # "comma" }

Leads == { << >>, <<Sp>>, <<"\n", Sp>>, <<"z">>, <<"z", Sp>>, <<"(">> }

Kws == {"select", "with", "show", "describe", "explain", "SELECT", "drop", "z"}

Glues == { <<Sp>>, <<"z", Sp>> }

TailWords == { forbidden[i] : i \in 1..Len(forbidden) } \cup {"DROP"}

NoTail == [pos |-> "none", word |-> "none"]

\* ; W z | = 'W' | -- W | zWz
Tails == {NoTail} \cup [pos : {"stmt", "literal", "comment", "ident"}, word : TailWords]

Blanks == { << >>, <<Sp>>, <<"\n", Sp>> }

TableCands ==
  [ fam : {"tables"}, head : {"select", "with"}, style : Styles, refs : RefSeqs,
    lead : {<< >>}, kw : {"none"}, glue : {<< >>}, tail : {NoTail} ]

PrefixCands ==
  [ fam : {"prefix"}, head : {"none"}, style : {"plain"}, refs : {<< >>},
    lead : Leads, kw : Kws, glue : Glues, tail : Tails ]

BlankCands ==
  [ fam : {"blank"}, head : {"none"}, style : {"plain"}, refs : {<< >>},
    lead : Blanks, kw : {"none"}, glue : {<< >>}, tail : {NoTail} ]

\* a mutating statement on one table: delete from T
MutatingCands ==
  [ fam : {"mutating"}, head : {"none"}, style : {"plain", "upper"},
    refs : { <<r>> : r \in [how : {"from"}, name : Names] },
    lead : {<< >>}, kw : {"delete"}, glue : {<<Sp>>}, tail : {NoTail} ]

Cands == TableCands \cup PrefixCands \cup BlankCands \cup MutatingCands

NoCand ==
  [ fam |-> "none", head |-> "none", style |-> "plain", refs |-> << >>,
    lead |-> << >>, kw |-> "none", glue |-> << >>, tail |-> NoTail ]

\* a keyword as the style writes it
Kw(style, w) == IF style = "upper" THEN Upper(w) ELSE w

\* a table name as the style writes it
RenderName(style, n) ==
  CASE style = "plain"     -> <<n>>
    [] style = "upper"     -> <<Upper(n)>>
    [] style = "quoted"    -> <<Backtick, n, Backtick>>
    [] style = "qualified" -> <<"db", ".", n>>

RenderRef(style, r) ==
  CASE r.how = "from"  -> <<Kw(style, "from"), Sp>> \o RenderName(style, r.name) \o <<Sp>>
    [] r.how = "join"  -> <<Kw(style, "join"), Sp>> \o RenderName(style, r.name) \o <<Sp>>
    [] r.how = "comma" -> <<",", Sp>> \o RenderName(style, r.name) \o <<Sp>>
    [] r.how = "paren" -> <<Kw(style, "from"), Sp, "(">> \o RenderName(style, r.name) \o <<")", Sp>>
    [] r.how = "sub"   -> <<Kw(style, "from"), Sp, "(", Kw(style, "select"), Sp, "*", Sp,
                            Kw(style, "from"), Sp>>
                            \o RenderName(style, r.name) \o <<")", Sp, "z", Sp>>
    [] r.how = "tight" -> <<Kw(style, "from"), Backtick, Kw(style, r.name), Backtick, Sp>>

RECURSIVE RenderRefs(_, _)
RenderRefs(style, rs) ==
  IF rs = << >> THEN << >>
  ELSE RenderRef(style, Head(rs)) \o RenderRefs(style, Tail(rs))

SelectStar(style) == <<Kw(style, "select"), Sp, "*", Sp>>

RenderTail(tl) ==
  CASE tl.pos = "none"    -> << >>
    [] tl.pos = "stmt"    -> <<";", Sp, tl.word, Sp, "z">>
    [] tl.pos = "literal" -> <<Sp, "=", Sp, "'", tl.word, "'">>
    [] tl.pos = "comment" -> <<Sp, "-", "-", Sp, tl.word>>
    [] tl.pos = "ident"   -> <<Sp, "z", tl.word, "z">>

\* the text of a candidate
Render(c) ==
  CASE c.fam = "blank"  -> c.lead
    [] c.fam = "prefix" ->
         c.lead \o <<c.kw>> \o c.glue \o <<"*", Sp, "from", Sp, "orders">> \o RenderTail(c.tail)
    [] c.fam = "mutating" ->
         <<Kw(c.style, c.kw)>> \o c.glue \o RenderRefs(c.style, c.refs)
    [] c.fam = "tables" /\ c.head = "select" ->
         SelectStar(c.style) \o RenderRefs(c.style, c.refs)
    [] c.fam = "tables" /\ c.head = "with" ->
         <<Kw(c.style, "with"), Sp, "z", Sp, Kw(c.style, "as"), Sp, "(">>
           \o SelectStar(c.style)
           \o (IF c.refs = << >> THEN << >> ELSE RenderRef(c.style, c.refs[1]))
           \o <<")", Sp>> \o SelectStar(c.style)
           \o (IF c.refs = << >> THEN << >> ELSE RenderRefs(c.style, Tail(c.refs)))
    [] OTHER -> << >>

\* ------------------------------------------------------- run_sql_async

\* error messages of the store (aiomysql); any of them can come at any await
StoreErrors == {"2003 can't connect", "1146 table doesn't exist"}

\* a scalar of a row as the driver hands it over, or as it is serialized:
\* its Python type (int, float, str, Decimal, date, datetime) and its text
Scalar(type, text) == [type |-> type, value |-> text]

\* float(Decimal(t)) as Python prints it, for the decimals of the rows below
FloatText(t) ==
  CASE t = "12.50" -> "12.5"
    [] t = "0.10" -> "0.1"
    [] OTHER -> t

\* _json_sanitize: Decimal to float, date and datetime to their isoformat()
\* string (the text a date carries here is its isoformat), the rest unchanged
_json_sanitize(val) ==
  IF val.type = "Decimal" THEN Scalar("float", FloatText(val.value))
  ELSE IF val.type \in {"date", "datetime"} THEN Scalar("str", val.value)
  ELSE val

\* what cur.description and cur.fetchall() can give after a statement ran:
\* no description and no row, columns and no row, columns and a row of an
\* integer column, columns and a row of a DATE and a DECIMAL column
Fetched ==
  { [description |-> << >>, rows |-> << >>],
    [description |-> <<"order_id">>, rows |-> << >>],
    [description |-> <<"order_id">>, rows |-> <<[order_id |-> Scalar("int", "1")]>>],
    [description |-> <<"order_date", "total_sales">>,
     rows |-> <<[order_date |-> Scalar("date", "2024-01-31"), total_sales |-> Scalar("Decimal", "12.50")]>>] }

NoQueryMsg == "No SQL query provided"
NotReadOnlyMsg == "This operation will not be performed (non-read-only query detected)."
DisallowedMsg == "Query references invalid or disallowed tables."

VARIABLES
  cand,        \* the candidate statement of the call in progress
  sql,         \* its text: the argument of run_sql_async
  pc,          \* where the call stands
  connection,  \* the local variable connection: "None", "open" or "closed"
  openConns,   \* connections open at the store
  acquired,    \* connections the call in progress has acquired
  submitted,   \* the statements passed to cur.execute in this call
  fault,       \* the error the store raised in this call, or "none"
  outcome,     \* how the call ended, once pc = "done"
  evals,       \* the verdicts the two classifiers gave so far, per statement
  apc,         \* where the POST /ask request in progress stands
  question,    \* its body.question
  nlq,         \* nlq_result, what process_nlq_to_sql returned
  response,    \* what ask_question returned
  rpc,         \* where the llm_complete_with_retry call in progress stands
  max_retries, \* its argument max_retries
  retry_delay, \* its variable retry_delay, in seconds
  attempt,     \* its loop variable attempt
  events,      \* the llm_complete calls and the sleeps it made, in order
  completion,  \* how it ended
  op,          \* the operation in progress that uses a connection of its own
  opc,         \* where it stands
  opconn,      \* its variable connection: "unbound", "open" or "closed"
  awaits,      \* the awaits on the store it still has to make
  model_file,  \* what the file at model_path holds
  tpc,         \* where the train_forecast_model_async call in progress stands
  trained,     \* what it returned
  fpc,         \* where the generate_forecast_async call in progress stands
  sawModel,    \* whether a trained model was in the file when it was called
  model_before, \* the file at model_path as the training in progress found it
  forecast     \* how it ended

\* the state of a run_sql_async call
guard == <<cand, sql, pc, connection, openConns, acquired, submitted, fault, outcome>>

\* the state run_sql_async neither reads nor writes, and the globals it only reads
ask == <<apc, question, nlq, response>>

retry == <<rpc, max_retries, retry_delay, attempt, events, completion>>

\* the state of the operations that neither run_sql_async, the classifiers
\* nor POST /ask touch
conns == <<op, opc, opconn, awaits>>

models == <<model_file, tpc, trained, fpc, sawModel, model_before, forecast>>

others == <<retry, conns, models>>

outside == <<globals, evals, ask, others>>

vars == <<guard, outside>>

NoOutcome ==
  [how |-> "none", kind |-> "none", text |-> << >>, columns |-> << >>, rows |-> << >>]

\* return {"message": m}
Message(m) ==
  [how |-> "returned", kind |-> "message", text |-> <<m>>, columns |-> << >>, rows |-> << >>]

\* return {"columns": columns, "rows": rows}
ResultSet(columns, rows) ==
  [how |-> "returned", kind |-> "resultset", text |-> << >>, columns |-> columns, rows |-> rows]

\* DatabaseError returned as a {"message": ...} value instead of raised
DatabaseError_Returned(e) ==
  [how |-> "returned", kind |-> "message", text |-> <<"Database error: ">> \o e,
   columns |-> << >>, rows |-> << >>]

\* DatabaseError with a fixed text, the store's message dropped
DatabaseError_NoCause(e) ==
  [how |-> "raised", kind |-> "Exception", text |-> <<"Database error: ">>,
   columns |-> << >>, rows |-> << >>]

\* raise Exception(f"Database error: {str(e)}")
DatabaseError(e) ==
  [how |-> "raised", kind |-> "Exception", text |-> <<"Database error: ">> \o e,
   columns |-> << >>, rows |-> << >>]

\* asyncio.CancelledError, a BaseException: except Exception lets it through
Cancelled ==
  [how |-> "raised", kind |-> "CancelledError", text |-> << >>, columns |-> << >>, rows |-> << >>]

\* raise Exception(f"Failed to connect to database: {str(e)}")
ConnectError(e) == <<"Failed to connect to database: ", e>>

\* sql is empty or sql.strip() is
IsBlank(s) == Strip(s) = << >>

\* Verdict without the table check
Verdict_NoTableCheck(s) ==
  IF IsBlank(s) THEN "Empty"
  ELSE IF ~ is_read_only_sql(s) THEN "NotReadOnly"
  ELSE "Approved"

\* Verdict with the table check made before the read-only check
Verdict_TablesFirst(s) ==
  IF IsBlank(s) THEN "Empty"
  ELSE IF ~ only_allowed_tables(s) THEN "DisallowedTable"
  ELSE IF ~ is_read_only_sql(s) THEN "NotReadOnly"
  ELSE "Approved"

\* the checks run_sql_async makes before it touches the store, in its order
Verdict(s) ==
  IF IsBlank(s) THEN "Empty"
  ELSE IF ~ is_read_only_sql(s) THEN "NotReadOnly"
  ELSE IF ~ only_allowed_tables(s) THEN "DisallowedTable"
  ELSE "Approved"

Rejection(v) ==
  CASE v = "Empty"           -> Message(NoQueryMsg)
    [] v = "NotReadOnly"     -> Message(NotReadOnlyMsg)
    [] v = "DisallowedTable" -> Message(DisallowedMsg)

\* Finally without the close: the connection is left open
Finally_NoClose(conn, open) == open

\* finally: if connection: connection.close()  -- the connections left open
Finally(conn, open) == IF conn # "None" THEN open - 1 ELSE open

\* the call ends with outcome o; the finally clause runs on the way out
Exit(o) ==
  /\ pc' = "done"
  /\ outcome' = o
  /\ openConns' = Finally(connection, openConns)
  /\ connection' = IF connection # "None" THEN "closed" ELSE connection
  /\ UNCHANGED <<cand, sql, acquired>>
  /\ UNCHANGED outside


\* ---------------------------------------- the classifiers called directly

MaxEvals == 2

\* the statements the classifiers are asked about: select * from orders,
\* select * from users, delete from orders, a blank
ClassifyCands ==
  { c \in TableCands : /\ c.head = "select" /\ c.style = "plain" /\ Len(c.refs) = 1
                       /\ c.refs[1].how = "from" /\ c.refs[1].name \in {"orders", "users"} }
  \cup { c \in MutatingCands : c.style = "plain" /\ c.refs[1].name = "orders" }
  \cup { c \in BlankCands : c.lead = <<Sp>> }

ClassifyStmts == { Render(c) : c \in ClassifyCands }

ClassifyCalls == [fn : {"is_read_only_sql", "only_allowed_tables"}, stmt : ClassifyStmts]

\* no classifier was called yet
NoEvals == [k \in ClassifyCalls |-> [n |-> 0, seen |-> {}]]

\* the answer of one more call is added to what the same call answered before
Answered(k, verdict) ==
  [evals EXCEPT ![k] = [n |-> @.n + 1, seen |-> @.seen \cup {verdict}]]

Eval_is_read_only_sql(s) ==
  LET k == [fn |-> "is_read_only_sql", stmt |-> s]
  IN  /\ evals[k].n < MaxEvals
      /\ evals' = Answered(k, is_read_only_sql(s))
      /\ UNCHANGED <<guard, globals, ask, others>>

\* only_allowed_tables that remembers the tables it was asked about: after a
\* call every table named in a statement is on the allow-list
Eval_only_allowed_tables_Learning(s) ==
  LET k == [fn |-> "only_allowed_tables", stmt |-> s]
  IN  /\ evals[k].n < MaxEvals
      /\ evals' = Answered(k, only_allowed_tables(s))
      /\ ALLOWED_TABLES' = ALLOWED_TABLES \cup { s[i] : i \in { j \in 1..Len(s) : s[j] \in Names } }
      /\ UNCHANGED <<guard, READ_ONLY_PATTERNS, ask, others>>

Eval_only_allowed_tables(s) ==
  LET k == [fn |-> "only_allowed_tables", stmt |-> s]
  IN  /\ evals[k].n < MaxEvals
      /\ evals' = Answered(k, only_allowed_tables(s))
      /\ UNCHANGED <<guard, globals, ask, others>>

\* ------------------------------------------------------------ POST /ask

Questions == {"total sales by month", "sales forecast for next month"}

\* a key the reply of the model does not have
Absent == "<absent>"

\* a value of the key sql: None, or a str with the candidate it was written as
SqlNone == [isNone |-> TRUE, text |-> << >>, cand |-> NoCand]

SqlText(c, t) == [isNone |-> FALSE, text |-> t, cand |-> c]

\* the truth value Python gives it: None and "" are false
Truthy(v) == ~ v.isNone /\ v.text # << >>

\* the fence of a code block
Fence == <<Backtick, Backtick, Backtick>>

\* s.replace(wrong, correct), from position i on
RECURSIVE ReplaceFrom(_, _, _, _)
ReplaceFrom(s, i, wrong, correct) ==
  IF i > Len(s) THEN << >>
  ELSE IF /\ i + Len(wrong) - 1 <= Len(s)
          /\ \A j \in 1..Len(wrong) : s[i + j - 1] = wrong[j]
    THEN correct \o ReplaceFrom(s, i + Len(wrong), wrong, correct)
    ELSE <<s[i]>> \o ReplaceFrom(s, i + 1, wrong, correct)

Replace(s, wrong, correct) == ReplaceFrom(s, 1, wrong, correct)

\* the keys of replacements in normalize_table_names, in the order of the dict
WrongNames ==
  << <<Backtick, "order", Sp, "details", Backtick>>,
     <<"order", Sp, "details">>,
     <<Backtick, "Order", Sp, "Details", Backtick>>,
     <<"[", "order", Sp, "details", "]">>,
     <<"'", "order", Sp, "details", "'">> >>

RECURSIVE NormalizeFrom(_, _)
NormalizeFrom(s, n) ==
  IF n > Len(WrongNames) THEN s
  ELSE NormalizeFrom(Replace(s, WrongNames[n], <<"order_details">>), n + 1)

normalize_table_names(s) == NormalizeFrom(s, 1)

\* re.sub of the two fence patterns by the empty string, tried in this order
\* at each position
RemoveFences(s) == Replace(Replace(s, Fence \o <<"sql">>, << >>), Fence, << >>)

\* the statements the model writes: select * from orders, select * from
\* users, delete from orders
AskCands ==
  { c \in TableCands : /\ c.head = "select" /\ c.style = "plain" /\ Len(c.refs) = 1
                       /\ c.refs[1].how = "from" /\ c.refs[1].name \in {"orders", "users"} }
  \cup { c \in MutatingCands : c.style = "plain" /\ c.refs[1].name = "orders" }

\* what the reply of the model has under the key sql: null, "", an empty
\* fenced block, select * from <backtick>order details<backtick> (the mistake
\* normalize_table_names repairs), a statement, a statement in a fenced block
SqlReplies ==
  { SqlNone, SqlText(NoCand, << >>), SqlText(NoCand, Fence \o <<"sql">> \o Fence),
    SqlText([ fam |-> "tables", head |-> "select", style |-> "plain",
              refs |-> <<[how |-> "from", name |-> "order_details"]>>,
              lead |-> << >>, kw |-> "none", glue |-> << >>, tail |-> NoTail ],
            SelectStar("plain") \o <<"from", Sp, Backtick, "order", Sp, "details", Backtick>>) }
  \cup { SqlText(c, Render(c)) : c \in AskCands }
  \cup { SqlText(c, Fence \o <<"sql", "\n">> \o Render(c) \o <<"\n">> \o Fence) : c \in AskCands }

\* the JSON object extracted from the reply of the model
LlmReplies ==
  [ sql : SqlReplies,
    intent : {"Historical", "Forecasting", "Unknown", Absent},
    message : {"Here are the results", Absent},
    chart : {"bar", Absent} ]

\* dict.get(key, default)
Get(d, key, default) == IF d[key] = Absent THEN default ELSE d[key]

NoNlq ==
  [ success |-> FALSE, error |-> << >>, sql |-> SqlNone, intent |-> "none",
    message |-> "", chart |-> "none" ]

\* process_nlq_to_sql gave up: the reply was no JSON, or something raised
NlqFailure(err) ==
  [ success |-> FALSE, error |-> err, sql |-> SqlNone, intent |-> "Unknown",
    message |-> "", chart |-> "none" ]

NlqErrors ==
  { <<"Could not parse response from AI model">>,
    <<"NLQ processing error: ", "Connection error.">> }

\* process_nlq_to_sql on a reply that was parsed: the table names of the
\* statement are normalized, the fences removed, the rest stripped
NlqSuccess(d) ==
  [ success |-> TRUE, error |-> << >>,
    sql |-> IF Truthy(d.sql)
              THEN SqlText(d.sql.cand, Strip(RemoveFences(normalize_table_names(d.sql.text))))
              ELSE d.sql,
    intent |-> Get(d, "intent", "Unknown"),
    message |-> Get(d, "message", ""),
    chart |-> Get(d, "chart", "table") ]

\* result = {"message": str(e)}; result = None is NoOutcome
ResultMessage(text) ==
  [how |-> "returned", kind |-> "message", text |-> text, columns |-> << >>, rows |-> << >>]

\* result = forecast_data
ResultForecast(data) ==
  [how |-> "returned", kind |-> "forecast", text |-> << >>, columns |-> << >>, rows |-> data]

\* the response of lines 144-150
FailureResponse(q, r) ==
  [ question |-> q, intent |-> "Unknown", sql |-> SqlNone, message |-> r.error,
    result |-> NoOutcome ]

\* the response of lines 190-198
Response(q, r, result, forecast_summary) ==
  [ question |-> q, intent |-> r.intent, sql |-> r.sql, message |-> <<r.message>>,
    result |-> result, forecast_summary |-> forecast_summary, chart |-> r.chart ]

\* what generate_forecast_async returns
ForecastData ==
  { << >>, <<[ds |-> Scalar("str", "2024-02-01"), yhat |-> Scalar("float", "12.5")]>> }

NoModelMsg == "No trained model found. Train first via /train_forecast"

\* str(e) of what generate_forecast_async raises
ForecastErrors ==
  { <<NoModelMsg>>, <<"Forecast error: ", "Ran out of input">> }

\* what generate_forecast_summary_async returns for forecast_data: the text
\* of the model or the fallback text, or a fixed text when there is no data
Summaries(data) ==
  IF data = << >>
    THEN { <<"No forecast data available to generate summary.">> }
    ELSE { <<"Sales are expected to increase.">>,
           <<"Based on your question about ...">> }

\* ------------------------------------------------ llm_complete_with_retry

MaxRetries == 3

\* retry_delay as the caller gives it (1.0 by default)
Delays == {1, 2}

\* what llm_complete returns
Completions == {"{\"intent\": \"Historical\"}", "I cannot answer that"}

\* what llm_complete raises
LlmErrors ==
  { "LLM API error: Connection error.", "LLM API error: Rate limit",
    "LLM API error: Request timed out." }

\* how a call ended: it returned a str or None, or raised; how = "none"
\* while it has not ended
Ended(how, kind, value) == [how |-> how, kind |-> kind, value |-> value]

\* ------------------- /health, get_sales_data_async, get_table_stats_async

\* the connections the store accepts at a time
MaxOpen == 2

Operations == {"health_check", "get_sales_data_async", "get_table_stats_async"}

\* the awaits on the store an operation makes once it is connected:
\* execute | execute, fetchall | execute, fetchone for each of two tables
AwaitsOf(o) ==
  CASE o = "health_check"          -> 1
    [] o = "get_sales_data_async"  -> 2
    [] o = "get_table_stats_async" -> 4

\* whether the operation closes its connection when it leaves on the given
\* path: get_sales_data_async and get_table_stats_async close it in a
\* finally block, health_check only after the statement ran
Closes(o, path) == o # "health_check" \/ path = "success"

OutsideAtStart ==
  /\ GlobalsAtImport
  /\ evals = NoEvals
  /\ apc = "idle"
  /\ question = ""
  /\ nlq = NoNlq
  /\ response = << >>
  /\ rpc = "idle"
  /\ max_retries = 0
  /\ retry_delay = 0
  /\ attempt = 0
  /\ events = << >>
  /\ completion = Ended("none", "none", "")
  /\ op = "none"
  /\ opc = "idle"
  /\ opconn = "unbound"
  /\ awaits = 0
  /\ model_file = "absent"
  /\ tpc = "idle"
  /\ trained = "none"
  /\ fpc = "idle"
  /\ sawModel = FALSE
  /\ model_before = "absent"
  /\ forecast = Ended("none", "none", "")

Init ==
  /\ cand = NoCand
  /\ sql = << >>
  /\ pc = "idle"
  /\ connection = "None"
  /\ openConns = 0
  /\ acquired = 0
  /\ submitted = << >>
  /\ fault = "none"
  /\ outcome = NoOutcome
  /\ OutsideAtStart

\* Call with the connection acquired before the checks
Call_ConnectFirst(c) ==
  /\ pc = "idle"
  /\ LET s == Render(c)
         v == Verdict(s)
     IN  /\ cand' = c
         /\ sql' = s
         /\ IF v = "Approved"
              THEN /\ pc' = "cursor"
                   /\ outcome' = NoOutcome
                   /\ connection' = "open"
                   /\ openConns' = openConns + 1
              ELSE /\ pc' = "done"
                   /\ outcome' = Rejection(v)
                   /\ connection' = "closed"
                   /\ openConns' = openConns
  /\ acquired' = 1
  /\ submitted' = << >>
  /\ fault' = "none"
  /\ UNCHANGED outside

\* run_sql_async(s) is called, s written as the candidate c; the checks run
\* and reject, or the call goes on
Submit(c, s) ==
  /\ pc = "idle"
  /\ LET v == Verdict(s)
     IN  /\ cand' = c
         /\ sql' = s
         /\ IF v = "Approved"
              THEN pc' = "connect" /\ outcome' = NoOutcome
              ELSE pc' = "done" /\ outcome' = Rejection(v)
  /\ connection' = "None"
  /\ acquired' = 0
  /\ submitted' = << >>
  /\ fault' = "none"
  /\ UNCHANGED openConns
  /\ UNCHANGED outside

\* run_sql_async called with the text of a candidate
Call(c) == Submit(c, Render(c))

\* connection = await get_connection_async()
ConnectOk ==
  /\ pc = "connect"
  /\ pc' = "cursor"
  /\ connection' = "open"
  /\ openConns' = openConns + 1
  /\ acquired' = acquired + 1
  /\ UNCHANGED <<cand, sql, submitted, fault, outcome>>
  /\ UNCHANGED outside

ConnectFail(e) ==
  /\ pc = "connect"
  /\ Exit(DatabaseError(ConnectError(e)))
  /\ fault' = e
  /\ UNCHANGED submitted

\* the caller cancels the task while it awaits the connection
ConnectCancel ==
  /\ pc = "connect"
  /\ Exit(Cancelled)
  /\ UNCHANGED <<submitted, fault>>

\* async with connection.cursor(aiomysql.DictCursor) as cur
CursorOk ==
  /\ pc = "cursor"
  /\ pc' = "execute"
  /\ UNCHANGED <<cand, sql, connection, openConns, acquired, submitted, fault, outcome>>
  /\ UNCHANGED outside

CursorFail(e) ==
  /\ pc = "cursor"
  /\ Exit(DatabaseError(<<e>>))
  /\ fault' = e
  /\ UNCHANGED submitted

\* await cur.execute(sql)
ExecuteOk ==
  /\ pc = "execute"
  /\ submitted' = Append(submitted, sql)
  /\ pc' = "fetch"
  /\ UNCHANGED <<cand, sql, connection, openConns, acquired, fault, outcome>>
  /\ UNCHANGED outside

\* ExecuteFail with one retry: after the first failure the statement is
\* submitted again on the same connection
ExecuteFail_Retry(e) ==
  /\ pc = "execute"
  /\ submitted' = Append(submitted, sql)
  /\ fault' = e
  /\ IF submitted = << >>
       THEN pc' = "execute"
            /\ UNCHANGED <<cand, sql, connection, openConns, acquired, outcome, outside>>
       ELSE Exit(DatabaseError(<<e>>))

ExecuteFail(e) ==
  /\ pc = "execute"
  /\ submitted' = Append(submitted, sql)
  /\ fault' = e
  /\ Exit(DatabaseError(<<e>>))

\* the caller cancels the task while it awaits the store
ExecuteCancel ==
  /\ pc = "execute"
  /\ submitted' = Append(submitted, sql)
  /\ Exit(Cancelled)
  /\ UNCHANGED fault

\* columns from cur.description, rows = await cur.fetchall(), return
FetchOk(f) ==
  /\ pc = "fetch"
  /\ Exit(ResultSet(f.description, f.rows))
  /\ UNCHANGED <<submitted, fault>>

FetchFail(e) ==
  /\ pc = "fetch"
  /\ Exit(DatabaseError(<<e>>))
  /\ fault' = e
  /\ UNCHANGED submitted

\* the caller has the outcome; the next call can come
Return ==
  /\ pc = "done"
  /\ pc' = "idle"
  /\ cand' = NoCand
  /\ sql' = << >>
  /\ connection' = "None"
  /\ submitted' = << >>
  /\ fault' = "none"
  /\ outcome' = NoOutcome
  /\ acquired' = 0
  /\ UNCHANGED openConns
  /\ UNCHANGED outside

Next ==
  \/ pc = "idle" /\ \E c \in Cands : Call(c)
  \/ ConnectOk
  \/ \E e \in StoreErrors : ConnectFail(e)
  \/ ConnectCancel
  \/ CursorOk
  \/ \E e \in StoreErrors : CursorFail(e)
  \/ ExecuteOk
  \/ \E e \in StoreErrors : ExecuteFail(e)
  \/ ExecuteCancel
  \/ \E f \in Fetched : FetchOk(f)
  \/ \E e \in StoreErrors : FetchFail(e)
  \/ Return

Spec == Init /\ [][Next]_vars

\* the classifiers called on their own, in any order and any number of times
NextClassify ==
  \/ \E s \in ClassifyStmts : Eval_is_read_only_sql(s)
  \/ \E s \in ClassifyStmts : Eval_only_allowed_tables(s)

SpecClassify == Init /\ [][NextClassify]_vars

\* ----------- /health, get_sales_data_async, get_table_stats_async: steps

\* the operation o is called and awaits its connection
OpCall(o) ==
  /\ opc = "idle"
  /\ op' = o
  /\ opc' = "connect"
  /\ opconn' = "unbound"
  /\ awaits' = AwaitsOf(o)
  /\ UNCHANGED <<guard, globals, evals, ask, retry, models>>

\* connection = await get_connection_async()
OpConnectOk ==
  /\ opc = "connect"
  /\ openConns < MaxOpen
  /\ opconn' = "open"
  /\ openConns' = openConns + 1
  /\ opc' = "store"
  /\ UNCHANGED <<op, awaits>>
  /\ UNCHANGED <<cand, sql, pc, connection, acquired, submitted, fault, outcome>>
  /\ UNCHANGED <<globals, evals, ask, retry, models>>

\* the operation leaves on the given path: by return after its last await,
\* through except Exception, or with the CancelledError of a cancelled request
OpExit(path) ==
  /\ opc' = "done"
  /\ IF opconn = "open" /\ Closes(op, path)
       THEN opconn' = "closed" /\ openConns' = openConns - 1
       ELSE UNCHANGED <<opconn, openConns>>
  /\ UNCHANGED <<op, awaits>>
  /\ UNCHANGED <<cand, sql, pc, connection, acquired, submitted, fault, outcome>>
  /\ UNCHANGED <<globals, evals, ask, retry, models>>

\* get_connection_async raised
OpConnectFail ==
  /\ opc = "connect"
  /\ OpExit("except")

\* cur.execute, cur.fetchall or cur.fetchone returned
OpAwaitOk ==
  /\ opc = "store"
  /\ awaits > 0
  /\ awaits' = awaits - 1
  /\ UNCHANGED <<op, opc, opconn, guard, globals, evals, ask, retry, models>>

\* cur.execute, cur.fetchall or cur.fetchone raised
OpAwaitFail ==
  /\ opc = "store"
  /\ awaits > 0
  /\ OpExit("except")

\* the request was cancelled while the operation awaited the store
OpCancel ==
  /\ opc \in {"connect", "store"}
  /\ opc = "store" => awaits > 0
  /\ OpExit("cancelled")

\* the last await returned; the operation returns its value
OpFinish ==
  /\ opc = "store"
  /\ awaits = 0
  /\ OpExit("success")

\* the caller has the value; the next operation can come
OpReturn ==
  /\ opc = "done"
  /\ op' = "none"
  /\ opc' = "idle"
  /\ opconn' = "unbound"
  /\ awaits' = 0
  /\ UNCHANGED <<guard, globals, evals, ask, retry, models>>

\* the operations of the service that open a connection, called in any
\* order, an operation and a run_sql_async call possibly at the same time
NextConns ==
  \/ \E o \in Operations : OpCall(o)
  \/ OpConnectOk
  \/ OpConnectFail
  \/ OpAwaitOk
  \/ OpAwaitFail
  \/ OpCancel
  \/ OpFinish
  \/ OpReturn
  \/ pc = "idle" /\ \E c \in AskCands : Call(c)
  \/ ConnectOk
  \/ \E e \in StoreErrors : ConnectFail(e)
  \/ ConnectCancel
  \/ CursorOk
  \/ \E e \in StoreErrors : CursorFail(e)
  \/ ExecuteOk
  \/ \E e \in StoreErrors : ExecuteFail(e)
  \/ ExecuteCancel
  \/ \E f \in Fetched : FetchOk(f)
  \/ \E e \in StoreErrors : FetchFail(e)
  \/ Return

SpecConns == Init /\ [][NextConns]_vars

\* ----------- train_forecast_model_async and generate_forecast_async: steps
\* The file at model_path is "absent", "empty" (just opened for writing),
\* "partial" (some of the pickle written) or "model" (a whole pickle).
\* train_forecast_model_async writes it in the event loop thread while
\* load_model of generate_forecast_async reads it in a thread of the pool.

\* train_forecast_model_async is called and awaits the sales data
TrainStart ==
  /\ tpc = "idle"
  /\ tpc' = "data"
  /\ trained' = "none"
  /\ model_before' = model_file
  /\ UNCHANGED <<model_file, fpc, sawModel, forecast, guard, globals, evals, ask, retry, conns>>

\* the data frame came: empty, so success False is returned, or not
TrainData(empty) ==
  /\ tpc = "data"
  /\ IF empty
       THEN tpc' = "done" /\ trained' = "No sales data found to train the model"
       ELSE tpc' = "fit" /\ UNCHANGED trained
  /\ UNCHANGED <<model_file, fpc, sawModel, forecast, model_before, guard, globals, evals, ask, retry, conns>>

\* model.fit returned in the pool; open(model_path, "wb") creates or
\* truncates the file
TrainOpen ==
  /\ tpc = "fit"
  /\ tpc' = "dump"
  /\ model_file' = "empty"
  /\ UNCHANGED <<trained, fpc, sawModel, forecast, model_before, guard, globals, evals, ask, retry, conns>>

\* pickle.dump writes the first part of the pickle
TrainWrite ==
  /\ tpc = "dump"
  /\ tpc' = "close"
  /\ model_file' = "partial"
  /\ UNCHANGED <<trained, fpc, sawModel, forecast, model_before, guard, globals, evals, ask, retry, conns>>

\* pickle.dump wrote the rest, the file is closed, success True is returned
TrainClose ==
  /\ tpc = "close"
  /\ tpc' = "done"
  /\ model_file' = "model"
  /\ trained' = "Forecast model trained successfully"
  /\ UNCHANGED <<fpc, sawModel, forecast, model_before, guard, globals, evals, ask, retry, conns>>

\* model.fit, open or pickle.dump raised: except Exception returns success
\* False; the file stays as it is at that moment
TrainFail ==
  /\ tpc \in {"fit", "dump", "close"}
  /\ tpc' = "done"
  /\ trained' = "Error training forecast model: ..."
  /\ UNCHANGED <<model_file, fpc, sawModel, forecast, model_before, guard, globals, evals, ask, retry, conns>>

\* the caller has the answer of the training
TrainReturn ==
  /\ tpc = "done"
  /\ tpc' = "idle"
  /\ trained' = "none"
  /\ UNCHANGED <<model_file, fpc, sawModel, forecast, model_before, guard, globals, evals, ask, retry, conns>>

\* generate_forecast_async is called and awaits load_model in the pool
GenerateStart ==
  /\ fpc = "idle"
  /\ fpc' = "load"
  /\ sawModel' = (model_file = "model")
  /\ forecast' = Ended("none", "none", "")
  /\ UNCHANGED <<model_file, tpc, trained, model_before, guard, globals, evals, ask, retry, conns>>

\* load_model: open(model_path, "rb") raises FileNotFoundError when there is
\* no file, pickle.load raises on a file that is not a whole pickle
LoadModel ==
  /\ fpc = "load"
  /\ CASE model_file = "absent" ->
            fpc' = "done" /\ forecast' = Ended("raised", "Exception", NoModelMsg)
       [] model_file = "empty" ->
            fpc' = "done" /\ forecast' = Ended("raised", "Exception", "Forecast error: Ran out of input")
       [] model_file = "partial" ->
            fpc' = "done" /\ forecast' = Ended("raised", "Exception", "Forecast error: pickle data was truncated")
       [] model_file = "model" ->
            fpc' = "predict" /\ UNCHANGED forecast
  /\ UNCHANGED <<model_file, tpc, trained, sawModel, model_before, guard, globals, evals, ask, retry, conns>>

\* make_forecast returned in the pool; forecast_data is returned
MakeForecast ==
  /\ fpc = "predict"
  /\ fpc' = "done"
  /\ forecast' = Ended("returned", "list", "forecast_data")
  /\ UNCHANGED <<model_file, tpc, trained, sawModel, model_before, guard, globals, evals, ask, retry, conns>>

\* the caller has the forecast or the exception
GenerateReturn ==
  /\ fpc = "done"
  /\ fpc' = "idle"
  /\ sawModel' = FALSE
  /\ forecast' = Ended("none", "none", "")
  /\ UNCHANGED <<model_file, tpc, trained, model_before, guard, globals, evals, ask, retry, conns>>

\* a training and a forecast, possibly at the same time
NextModels ==
  \/ TrainStart
  \/ \E empty \in BOOLEAN : TrainData(empty)
  \/ TrainOpen
  \/ TrainWrite
  \/ TrainClose
  \/ TrainFail
  \/ TrainReturn
  \/ GenerateStart
  \/ LoadModel
  \/ MakeForecast
  \/ GenerateReturn

SpecModels == Init /\ [][NextModels]_vars

\* --------------------------------------- llm_complete_with_retry, its steps

\* llm_complete_with_retry(..., max_retries = m, retry_delay = d) is called;
\* range(0) is empty, so with m = 0 the loop body never runs
RetryCall(m, d) ==
  /\ rpc = "idle"
  /\ max_retries' = m
  /\ retry_delay' = d
  /\ attempt' = 0
  /\ events' = << >>
  /\ IF m > 0
       THEN rpc' = "call" /\ completion' = Ended("none", "none", "")
       ELSE rpc' = "done" /\ completion' = Ended("returned", "None", "")
  /\ UNCHANGED <<guard, globals, evals, ask, conns, models>>

\* return await llm_complete(...)
AttemptOk(text) ==
  /\ rpc = "call"
  /\ events' = Append(events, [ev |-> "call", raised |-> FALSE, value |-> text])
  /\ completion' = Ended("returned", "str", text)
  /\ rpc' = "done"
  /\ UNCHANGED <<max_retries, retry_delay, attempt, guard, globals, evals, ask, conns, models>>

\* llm_complete raised e: raise it after the last attempt, sleep otherwise
AttemptFail(e) ==
  /\ rpc = "call"
  /\ events' = Append(events, [ev |-> "call", raised |-> TRUE, value |-> e])
  /\ IF attempt = max_retries - 1
       THEN rpc' = "done" /\ completion' = Ended("raised", "Exception", e)
       ELSE rpc' = "sleep" /\ UNCHANGED completion
  /\ UNCHANGED <<max_retries, retry_delay, attempt, guard, globals, evals, ask, conns, models>>

\* await asyncio.sleep(retry_delay) returned; retry_delay *= 2; next attempt
Slept ==
  /\ rpc = "sleep"
  /\ events' = Append(events, [ev |-> "sleep", seconds |-> retry_delay])
  /\ retry_delay' = retry_delay * 2
  /\ attempt' = attempt + 1
  /\ rpc' = "call"
  /\ UNCHANGED <<max_retries, completion, guard, globals, evals, ask, conns, models>>

\* the caller has the value or the exception
RetryReturn ==
  /\ rpc = "done"
  /\ rpc' = "idle"
  /\ max_retries' = 0
  /\ retry_delay' = 0
  /\ attempt' = 0
  /\ events' = << >>
  /\ completion' = Ended("none", "none", "")
  /\ UNCHANGED <<guard, globals, evals, ask, conns, models>>

NextRetry ==
  \/ \E m \in 0..MaxRetries, d \in Delays : RetryCall(m, d)
  \/ \E text \in Completions : AttemptOk(text)
  \/ \E e \in LlmErrors : AttemptFail(e)
  \/ Slept
  \/ RetryReturn

SpecRetry == Init /\ [][NextRetry]_vars

\* ------------------------------------------------- POST /ask, its steps

\* a request arrives; ask_question awaits process_nlq_to_sql
AskStart(q) ==
  /\ apc = "idle"
  /\ pc = "idle"
  /\ apc' = "nlq"
  /\ question' = q
  /\ nlq' = NoNlq
  /\ response' = << >>
  /\ UNCHANGED <<guard, globals, evals, others>>

\* process_nlq_to_sql returned success False; ask_question answers at once
NlqFailed(err) ==
  /\ apc = "nlq"
  /\ nlq' = NlqFailure(err)
  /\ response' = FailureResponse(question, NlqFailure(err))
  /\ apc' = "done"
  /\ UNCHANGED <<question, guard, globals, evals, others>>

\* process_nlq_to_sql returned success True; ask_question chooses its branch
NlqOk(d) ==
  /\ apc = "nlq"
  /\ LET r == NlqSuccess(d)
     IN  /\ nlq' = r
         /\ IF r.intent = "Historical" /\ Truthy(r.sql)
              THEN apc' = "sql" /\ UNCHANGED response
            ELSE IF r.intent = "Forecasting"
              THEN apc' = "forecast" /\ UNCHANGED response
            ELSE /\ apc' = "done"
                 /\ response' = Response(question, r, NoOutcome, << >>)
  /\ UNCHANGED <<question, guard, globals, evals, others>>

\* the statement handed to the store at once, without run_sql_async
AskRunSql_Unguarded ==
  /\ apc = "sql"
  /\ pc = "idle"
  /\ cand' = nlq.sql.cand
  /\ sql' = nlq.sql.text
  /\ pc' = "connect"
  /\ outcome' = NoOutcome
  /\ connection' = "None"
  /\ acquired' = 0
  /\ submitted' = << >>
  /\ fault' = "none"
  /\ UNCHANGED <<openConns, outside>>

\* result = await run_sql_async(sql_query)
AskRunSql ==
  /\ apc = "sql"
  /\ Submit(nlq.sql.cand, nlq.sql.text)

\* ask_question without the except clause of lines 168-170: what
\* run_sql_async raises leaves the handler, and no response is built
AskSqlDone_Propagates ==
  /\ apc = "sql"
  /\ pc = "done"
  /\ outcome # Cancelled
  /\ IF outcome.how = "raised"
       THEN UNCHANGED response
       ELSE response' = Response(question, nlq, outcome, << >>)
  /\ apc' = "done"
  /\ UNCHANGED <<question, nlq, guard, globals, evals, others>>

\* run_sql_async returned or raised; the response is built
AskSqlDone ==
  /\ apc = "sql"
  /\ pc = "done"
  /\ outcome # Cancelled
  /\ LET result == IF outcome.how = "raised" THEN ResultMessage(outcome.text) ELSE outcome
     IN  response' = Response(question, nlq, result, << >>)
  /\ apc' = "done"
  /\ UNCHANGED <<question, nlq, guard, globals, evals, others>>

\* the request was cancelled while run_sql_async awaited the store: no response
AskCancelled ==
  /\ apc = "sql"
  /\ pc = "done"
  /\ outcome = Cancelled
  /\ apc' = "done"
  /\ UNCHANGED <<question, nlq, response, guard, globals, evals, others>>

\* forecast_data = await generate_forecast_async(30, MODEL_PATH) returned
ForecastOk(data) ==
  /\ apc = "forecast"
  /\ response' = Response(question, nlq, ResultForecast(data), << >>)
  /\ apc' = "summary"
  /\ UNCHANGED <<question, nlq, guard, globals, evals, others>>

\* generate_forecast_async raised
ForecastFailed(e) ==
  /\ apc = "forecast"
  /\ LET result == IF \E i \in 1..Len(e) : e[i] = NoModelMsg
                     THEN ResultMessage(<<"No trained forecast model found. Please train the model first using /train_forecast endpoint.">>)
                     ELSE ResultMessage(<<"Forecast error: ">> \o e)
     IN  response' = Response(question, nlq, result, << >>)
  /\ apc' = "done"
  /\ UNCHANGED <<question, nlq, guard, globals, evals, others>>

\* forecast_summary = await generate_forecast_summary_async(...) returned
SummaryDone(t) ==
  /\ apc = "summary"
  /\ response' = [response EXCEPT !.forecast_summary = t]
  /\ apc' = "done"
  /\ UNCHANGED <<question, nlq, guard, globals, evals, others>>

\* the response is sent; the next request can come
AskReturn ==
  /\ apc = "done"
  /\ apc' = "idle"
  /\ question' = ""
  /\ nlq' = NoNlq
  /\ response' = << >>
  /\ pc' = "idle"
  /\ cand' = NoCand
  /\ sql' = << >>
  /\ connection' = "None"
  /\ submitted' = << >>
  /\ fault' = "none"
  /\ outcome' = NoOutcome
  /\ acquired' = 0
  /\ UNCHANGED <<openConns, globals, evals, others>>

NextAsk ==
  \/ \E q \in Questions : AskStart(q)
  \/ \E err \in NlqErrors : NlqFailed(err)
  \/ apc = "nlq" /\ \E d \in LlmReplies : NlqOk(d)
  \/ AskRunSql
  \/ ConnectOk
  \/ \E e \in StoreErrors : ConnectFail(e)
  \/ ConnectCancel
  \/ CursorOk
  \/ \E e \in StoreErrors : CursorFail(e)
  \/ ExecuteOk
  \/ \E e \in StoreErrors : ExecuteFail(e)
  \/ ExecuteCancel
  \/ \E f \in Fetched : FetchOk(f)
  \/ \E e \in StoreErrors : FetchFail(e)
  \/ AskSqlDone
  \/ AskCancelled
  \/ \E data \in ForecastData : ForecastOk(data)
  \/ \E e \in ForecastErrors : ForecastFailed(e)
  \/ apc = "summary" /\ \E t \in Summaries(response.result.rows) : SummaryDone(t)
  \/ AskReturn

SpecAsk == Init /\ [][NextAsk]_vars

TypeOK ==
  /\ pc \in {"idle", "connect", "cursor", "execute", "fetch", "done"}
  /\ connection \in {"None", "open", "closed"}
  /\ openConns \in 0..1
  /\ acquired \in 0..1

\* ---------------------------------------------------------------- claims

Running == {"connect", "cursor", "execute", "fetch"}

RejectionOutcomes == {Message(NoQueryMsg), Message(NotReadOnlyMsg), Message(DisallowedMsg)}

\* the checks of the call have just run: it rejected, or is about to connect
JustChecked == pc = "connect" \/ (pc = "done" /\ outcome \in RejectionOutcomes)

\* C1: a statement is passed to cur.execute, and a {columns, rows} result is
\* returned, only for the statement of the call and only if it is non-blank,
\* read-only by is_read_only_sql and passes only_allowed_tables; the store is
\* not reached (no connection, no execute) for any other statement.
C1_OnlyApprovedReachStore ==
  LET approved == ~ IsBlank(sql) /\ is_read_only_sql(sql) /\ only_allowed_tables(sql)
  IN  /\ \A i \in 1..Len(submitted) : submitted[i] = sql /\ approved
      /\ outcome.kind = "resultset" => approved /\ submitted = <<sql>>
      /\ pc \in Running => approved

\* C1 witness: an approved statement that reads a table was executed and its
\* result set returned
C1_Witness ==
  /\ pc = "done"
  /\ outcome.kind = "resultset"
  /\ submitted = <<sql>>
  /\ cand.refs # << >>

\* C2: a call that rejects its statement (blank, not read-only, disallowed
\* table) ends in that step, having acquired no connection: the connections
\* open at the store are as they were and the local connection is None.
C2_RejectOpensNoConnection ==
  [][ (pc = "idle" /\ pc' # "idle" /\ Verdict(sql') # "Approved")
        => /\ pc' = "done"
           /\ outcome' \in RejectionOutcomes
           /\ acquired' = 0
           /\ openConns' = openConns
           /\ connection' = "None" ]_vars

\* C2 witness: a call rejected for a disallowed table has ended
C2_Witness ==
  /\ pc = "done"
  /\ outcome = Message(DisallowedMsg)
  /\ acquired = 0
  /\ openConns = 0
  /\ connection = "None"

\* the candidate reads, as a table source, a table outside the allow-list
ReadsDisallowedTable(c) ==
  \E i \in 1..Len(c.refs) : c.refs[i].name \notin ALLOWED_TABLES

\* C3: a statement that reads a table outside the allow-list as a table
\* source, however the reference is written, is rejected and never reaches
\* the store.
C3_DisallowedTableNeverReachesStore ==
  (pc # "idle" /\ ReadsDisallowedTable(cand))
    => /\ pc = "done"
       /\ outcome \in RejectionOutcomes
       /\ submitted = << >>

\* the candidate starts, after leading whitespace and in any letter case,
\* with one of the read-only keywords as a whole word
StartsWithKeyword(c) ==
  \/ c.fam = "tables"
  \/ /\ c.fam = "prefix"
     /\ c.lead \in Blanks
     /\ Lower(c.kw) \in {"select", "with", "show", "describe", "explain"}
     /\ c.glue[1] \in Whitespace

\* the candidate's text begins with the letters of a read-only keyword
StartsWithPrefix(c) ==
  \/ c.fam = "tables"
  \/ /\ c.fam = "prefix"
     /\ c.lead \in Blanks
     /\ Lower(c.kw) \in {"select", "with", "show", "describe", "explain"}

\* C4: a statement that starts with a read-only prefix and has a mutating
\* keyword anywhere after it (a second statement, a string literal, a
\* comment, inside a longer identifier; in any letter case) is not read-only
\* for is_read_only_sql, and run_sql_async returns the NotReadOnly rejection.
C4_MutatingKeywordAnywhere ==
  (pc # "idle" /\ StartsWithPrefix(cand) /\ cand.tail.pos # "none")
    => /\ ~ is_read_only_sql(sql)
       /\ pc = "done"
       /\ outcome = Message(NotReadOnlyMsg)

\* C4 witness: select ... with a mutating keyword inside a longer identifier
C4_Witness ==
  /\ pc = "done"
  /\ cand.fam = "prefix"
  /\ cand.lead = << >> /\ cand.kw = "select" /\ cand.glue = <<Sp>>
  /\ cand.tail = [pos |-> "ident", word |-> "update"]
  /\ outcome = Message(NotReadOnlyMsg)

\* C5: a statement that does not start with a read-only keyword is not
\* read-only for is_read_only_sql, also when such a keyword comes later in
\* the text; unless it is blank, run_sql_async returns the NotReadOnly
\* rejection.
C5_NoLeadingKeyword ==
  (pc # "idle" /\ ~ StartsWithKeyword(cand))
    => /\ ~ is_read_only_sql(sql)
       /\ pc = "done"
       /\ outcome = IF cand.fam = "blank" THEN Message(NoQueryMsg) ELSE Message(NotReadOnlyMsg)

\* C5 witness: "z select * from orders": the keyword is there, but not first
C5_Witness ==
  /\ pc = "done"
  /\ cand.fam = "prefix"
  /\ cand.lead = <<"z", Sp>> /\ cand.kw = "select" /\ cand.glue = <<Sp>>
  /\ cand.tail = NoTail
  /\ outcome = Message(NotReadOnlyMsg)

\* every table source of the candidate is an allow-listed table, and there is one
ReadsOnlyAllowedTables(c) ==
  /\ c.fam = "tables"
  /\ c.refs # << >>
  /\ \A i \in 1..Len(c.refs) : c.refs[i].name \in ALLOWED_TABLES

\* C6: a statement whose table sources are a non-empty subset of the
\* allow-list, in any letter case, backtick-quoted or schema-qualified,
\* passes only_allowed_tables; being read-only too, it goes on to execution.
C6_AllowedTablesPass ==
  /\ (pc # "idle" /\ ReadsOnlyAllowedTables(cand))
       => pc \in Running \/ (pc = "done" /\ outcome \notin RejectionOutcomes)
  /\ (JustChecked /\ ReadsOnlyAllowedTables(cand))
       => only_allowed_tables(sql) /\ is_read_only_sql(sql)

\* C6 witness: db.orders joined with db.order_details was executed
C6_Witness ==
  /\ pc = "fetch"
  /\ submitted = <<sql>>
  /\ cand.style = "qualified"
  /\ cand.refs = <<[how |-> "from", name |-> "orders"], [how |-> "join", name |-> "order_details"]>>

\* the statement as only_allowed_tables reads it
Normalized(s) == StripQuotes(LowerAll(s))

\* position i of s holds from or join as a keyword
KeywordAt(s, i) ==
  /\ s[i] \in {"from", "join"}
  /\ i = 1 \/ ~ IsWord(s[i - 1])

\* whitespace, and nothing else, fills s between positions i and j
SpacesBetween(s, i, j) ==
  /\ i + 1 < j
  /\ \A m \in (i + 1)..(j - 1) : s[m] \in Whitespace

\* an identifier [a-z0-9_.]+ stands in s from position j to position k, and
\* goes no further
IdentifierAt(s, j, k) ==
  /\ k = Len(s) \/ ~ (IsWord(s[k + 1]) \/ s[k + 1] = ".")
  /\ \A m \in j..k : IsWord(s[m]) \/ s[m] = "."

\* the identifier s[j..k] ends in a dot-separated segment that is an
\* allow-listed table
EndsInAllowedTable(s, j, k) ==
  /\ s[k] \in ALLOWED_TABLES
  /\ j = k \/ s[k - 1] = "."

\* some from or join of s is followed by an identifier that does not end in
\* an allow-listed table
HasDisallowedTarget(s) ==
  \E i \in 1..Len(s) :
    /\ KeywordAt(s, i)
    /\ \E j \in (i + 2)..Len(s) :
          /\ SpacesBetween(s, i, j)
          /\ \E k \in j..Len(s) :
                IdentifierAt(s, j, k) /\ ~ EndsInAllowedTable(s, j, k)

C8_ConnectionsReleased ==
  /\ pc \in {"idle", "done"} => openConns = 0 /\ connection # "open"
  /\ pc \in Running => openConns = (IF connection = "open" THEN 1 ELSE 0)

\* C8 witness: the caller cancelled during execute; the connection is closed
C8_Witness ==
  /\ pc = "done"
  /\ outcome = Cancelled
  /\ submitted = <<sql>>
  /\ connection = "closed"
  /\ openConns = 0

C10_DatabaseErrorSurfaced ==
  (pc = "done" /\ fault # "none")
    => /\ Verdict(sql) = "Approved"
       /\ outcome.how = "raised"
       /\ outcome.text[1] = "Database error: "
       /\ outcome.text[Len(outcome.text)] = fault
       /\ outcome \notin RejectionOutcomes
       /\ outcome.kind \notin {"message", "resultset"}

\* C10 witness: the connection could not be acquired
C10_Witness ==
  /\ pc = "done"
  /\ fault # "none"
  /\ connection = "None"
  /\ outcome.text = <<"Database error: ", "Failed to connect to database: ", fault>>

\* ---------------------------------------------------------------- C11
\* C11: every scalar in the rows of a result set that run_sql_async returns is
\* normalized for serialization: a Decimal has become a float, a date or a
\* datetime has become an ISO-8601 string, so that normalizing it again
\* changes nothing.  run_sql_async returns the rows of cur.fetchall() as they
\* are and never applies _json_sanitize, so a row of a DECIMAL or DATE column
\* violates this.
C11_RowsNormalized ==
  (pc = "done" /\ outcome.kind = "resultset") =>
    \A i \in 1..Len(outcome.rows) :
      \A col \in DOMAIN outcome.rows[i] :
        /\ outcome.rows[i][col].type \notin {"Decimal", "date", "datetime"}
        /\ _json_sanitize(outcome.rows[i][col]) = outcome.rows[i][col]

\* ---------------------------------------------------------------- C12
\* the five terminal outcomes of a call
IsTerminal(kind, o) ==
  CASE kind = "Empty"           -> o = Message(NoQueryMsg)
    [] kind = "NotReadOnly"     -> o = Message(NotReadOnlyMsg)
    [] kind = "DisallowedTable" -> o = Message(DisallowedMsg)
    [] kind = "Succeeded"       -> o.how = "returned" /\ o.kind = "resultset"
    [] kind = "Failed"          -> /\ o.how = "raised" /\ o.kind = "Exception"
                                   /\ o.text # << >> /\ o.text[1] = "Database error: "

TerminalKinds == {"Empty", "NotReadOnly", "DisallowedTable", "Succeeded", "Failed"}

\* C12: a call that its caller did not cancel ends in exactly one of the
\* five terminal outcomes, and the outcome follows the order of the checks:
\* a blank statement is answered Empty; a statement that is not read-only is
\* answered NotReadOnly whether or not its tables are allowed; DisallowedTable
\* is answered only to a read-only statement; only a statement that passes
\* all three goes on to the store, where it succeeds or fails.
C12_OneOutcomeInCheckOrder ==
  /\ (pc = "done" /\ outcome # Cancelled)
       => Cardinality({ k \in TerminalKinds : IsTerminal(k, outcome) }) = 1
  /\ JustChecked
       => /\ (pc = "done" /\ IsTerminal("Empty", outcome)) <=> IsBlank(sql)
          /\ (pc = "done" /\ IsTerminal("NotReadOnly", outcome))
               <=> (~ IsBlank(sql) /\ ~ is_read_only_sql(sql))
          /\ (pc = "done" /\ IsTerminal("DisallowedTable", outcome))
               <=> (~ IsBlank(sql) /\ is_read_only_sql(sql) /\ ~ only_allowed_tables(sql))

\* C12 witness: delete from users fails the read-only check and the table
\* check, and is answered NotReadOnly
C12_Witness ==
  /\ pc = "done"
  /\ cand.fam = "mutating"
  /\ ~ is_read_only_sql(sql)
  /\ ~ only_allowed_tables(sql)
  /\ outcome = Message(NotReadOnlyMsg)

\* ---------------------------------------------------------------- C13
\* C13: run_sql_async never retries: within one call at most one connection
\* is acquired and the statement is passed to the store at most once, also
\* when acquiring the connection or executing the statement failed; after a
\* failure the call is over.
C13_NoRetry ==
  /\ acquired <= 1
  /\ Len(submitted) <= 1
  /\ submitted # << >> => submitted = <<sql>> /\ acquired = 1
  /\ fault # "none" => pc = "done"

\* C13 witness: execute failed; one connection, one submission, call over
C13_Witness ==
  /\ pc = "done"
  /\ fault # "none"
  /\ acquired = 1
  /\ Len(submitted) = 1
  /\ outcome.how = "raised"

\* ---------------------------------------------------------------- C14
\* C14: classification is deterministic and stateless: however the calls of
\* is_read_only_sql and only_allowed_tables on several statements are
\* interleaved, all the calls of one classifier on one statement give the same
\* verdict, and no call changes the allow-list or the list of patterns.
C14_ClassificationStateless ==
  /\ GlobalsAtImport
  /\ \A k \in ClassifyCalls : Cardinality(evals[k].seen) <= 1

\* C14 witness: every statement was classified twice by both classifiers, with
\* both verdicts occurring among the statements
C14_Witness ==
  /\ \A k \in ClassifyCalls : evals[k].n >= 2
  /\ \E k \in ClassifyCalls : k.fn = "only_allowed_tables" /\ evals[k].seen = {FALSE}
  /\ \E k \in ClassifyCalls : k.fn = "only_allowed_tables" /\ evals[k].seen = {TRUE}
  /\ \E k \in ClassifyCalls : k.fn = "is_read_only_sql" /\ evals[k].seen = {FALSE}
  /\ \E k \in ClassifyCalls : k.fn = "is_read_only_sql" /\ evals[k].seen = {TRUE}

\* ---------------------------------------------------------------- C15
\* C15: on POST /ask the statement the model wrote reaches the store only
\* through run_sql_async, and only when the intent is Historical and the
\* statement is not empty: whenever a run_sql_async call is under way or a
\* statement was submitted, NLQ processing had succeeded with intent
\* Historical and a non-empty statement, the statement submitted is that one
\* and the guard approved it; a request whose NLQ processing failed or whose
\* intent is not Historical ends without any call, connection or submission.
C15_SqlOnlyThroughGuard ==
  /\ (pc # "idle" \/ submitted # << >> \/ openConns > 0)
       => /\ apc \in {"sql", "done"}
          /\ nlq.success
          /\ nlq.intent = "Historical"
          /\ Truthy(nlq.sql)
          /\ sql = nlq.sql.text
  /\ submitted # << >>
       => submitted = <<nlq.sql.text>> /\ Verdict(nlq.sql.text) = "Approved"
  /\ (apc \in {"forecast", "summary", "done"} /\ (~ nlq.success \/ nlq.intent # "Historical"))
       => pc = "idle" /\ submitted = << >> /\ acquired = 0 /\ openConns = 0

\* C15 witness: a Historical question was answered with the rows of the
\* statement the model wrote inside a fence
C15_Witness ==
  /\ apc = "done"
  /\ nlq.intent = "Historical"
  /\ submitted = <<sql>>
  /\ sql = Strip(Render(nlq.sql.cand))
  /\ DOMAIN response # {}
  /\ response.result.kind = "resultset"

\* ---------------------------------------------------------------- C16
AskFields ==
  {"question", "intent", "sql", "message", "result", "forecast_summary", "chart"}

\* C16: every response of POST /ask has the seven fields question, intent,
\* sql, message, result, forecast_summary and chart.  The response given when
\* NLQ processing failed has no forecast_summary and no chart.
C16_SevenFields ==
  (apc = "done" /\ DOMAIN response # {}) => DOMAIN response = AskFields

\* ---------------------------------------------------------------- C18
\* C18: a statement (not the empty string) in which neither from nor join
\* occurs as a keyword passes only_allowed_tables, and is approved and
\* handed to the store if it is read-only as well; a statement in which from
\* or join occurs as a keyword and none of the five allow-listed names occurs
\* as a whole word fails only_allowed_tables.  Keywords and names are looked
\* for in the statement as written, in any letter case.  The code looks for
\* them after it removed the quote characters, so that a from written right
\* before a backtick is no keyword to it.
C18_KeywordsDecideTableCheck ==
  (JustChecked /\ sql # << >>) =>
    \A raw \in {LowerAll(sql)} :
      /\ (~ SearchWord(raw, "from") /\ ~ SearchWord(raw, "join"))
           => /\ only_allowed_tables(sql)
              /\ is_read_only_sql(sql) => pc = "connect"
      /\ ((SearchWord(raw, "from") \/ SearchWord(raw, "join"))
            /\ ~ \E t \in ALLOWED_TABLES : SearchWord(raw, t))
           => ~ only_allowed_tables(sql)

\* ---------------------------------------------------------------- C19
Calls == { i \in 1..Len(events) : events[i].ev = "call" }

\* C19: for every max_retries >= 0 a finished llm_complete_with_retry call
\* has called llm_complete at most max_retries times, made no call after a
\* successful one, and either returned the string of the successful call or
\* raised the error of the last failed call, after max_retries failures; it
\* did not return without a string, and its last step was not a sleep.  With
\* max_retries = 0 the call returns None without any attempt.
C19_RetryContract ==
  rpc = "done" =>
    /\ Cardinality(Calls) <= max_retries
    /\ \A i \in Calls : ~ events[i].raised => i = Len(events)
    /\ completion.how \in {"returned", "raised"}
    /\ completion.how = "returned"
         => /\ completion.kind = "str"
            /\ events # << >>
            /\ events[Len(events)] = [ev |-> "call", raised |-> FALSE, value |-> completion.value]
    /\ completion.how = "raised"
         => /\ Cardinality(Calls) = max_retries
            /\ events # << >>
            /\ events[Len(events)] = [ev |-> "call", raised |-> TRUE, value |-> completion.value]
    /\ events # << >> => events[Len(events)].ev = "call"

\* ---------------------------------------------------------------- C20
\* C20: every connection an operation of the service opened (run_sql_async,
\* get_sales_data_async, get_table_stats_async, /health) is closed when the
\* operation has left, on whatever path, and when no operation is under way
\* no connection is open at the store.  health_check closes its connection
\* only after its statement ran: when cur.execute raises, the connection
\* stays open.
C20_EveryConnectionClosed ==
  /\ opc = "done" => opconn # "open"
  /\ pc = "done" => connection # "open"
  /\ (opc \in {"idle", "done"} /\ pc \in {"idle", "done"}) => openConns = 0

\* ---------------------------------------------------------------- C17
\* C17: requests in flight at the same time do not influence one another; in
\* particular a forecast asked for when the file holds a trained model ends
\* by returning forecast data, whether or not a training rewrites the file
\* meanwhile.  A training that has opened the file for writing and not yet
\* finished leaves it empty or partial, and a forecast that loads it then
\* ends with a Forecast error.
C17_ForecastIndependentOfTraining ==
  (fpc = "done" /\ sawModel) => (forecast.how = "returned" /\ forecast.kind = "list")

\* ---------------------------------------------------------------- C21
\* C21: train_forecast_model_async returns and does not raise, and whenever
\* it returns success False (no sales data, a failure of model.fit, a failure
\* while opening or writing the file) a model saved at model_path before the
\* call is still there unchanged, so that a later forecast loads it.
C21_FailedTrainingKeepsModel ==
  (tpc = "done" /\ trained # "Forecast model trained successfully" /\ model_before = "model")
    => model_file = "model"

\* ---------------------------------------------------------------- C22
\* C22: a POST /ask request that is not cancelled ends with a normal
\* response, whatever its stages did.  process_nlq_to_sql returns a result
\* and never raises: a failure is success False with intent Unknown, and then
\* the response has intent Unknown, sql None and result None and the store
\* was not touched.  What run_sql_async raised is given as the result
\* {message: str(e)}, and a failed forecast as a result {message}.
C22_AskNeverRaises ==
  /\ apc \in {"sql", "forecast", "summary", "done"}
       => /\ nlq # NoNlq
          /\ ~ nlq.success => (nlq.intent = "Unknown" /\ nlq.error # << >> /\ apc = "done")
  /\ (apc = "done" /\ outcome # Cancelled)
       => /\ DOMAIN response # {}
          /\ {"question", "intent", "sql", "message", "result"} \subseteq DOMAIN response
          /\ ~ nlq.success
               => /\ response.intent = "Unknown"
                  /\ response.sql = SqlNone
                  /\ response.result = NoOutcome
                  /\ response.message = nlq.error
                  /\ pc = "idle" /\ acquired = 0 /\ submitted = << >> /\ openConns = 0
          /\ outcome.how = "raised"
               => /\ response.result = ResultMessage(outcome.text)
                  /\ response.intent = "Historical"
          /\ (nlq.success /\ nlq.intent = "Forecasting")
               => /\ response.result.how = "returned"
                  /\ response.result.kind \in {"forecast", "message"}
                  /\ response.result.kind = "message"
                       => response.result.text[1] \in
                            { "Forecast error: ",
                              "No trained forecast model found. Please train the model first using /train_forecast endpoint." }
                  /\ pc = "idle" /\ submitted = << >>

\* C22 witness: the store raised while run_sql_async ran the statement of a
\* Historical question, and the response carries the error as its result
C22_Witness ==
  /\ apc = "done"
  /\ nlq.success
  /\ outcome.how = "raised"
  /\ outcome.kind = "Exception"
  /\ fault # "none"
  /\ DOMAIN response # {}
  /\ response.result.kind = "message"
  /\ response.result.text = outcome.text

====
